---------------------------- MODULE Spec2Model ----------------------------
(***************************************************************************)
(* A model of excel-craft: ExcelWorkbook (src/src/core/workbook.ts), the   *)
(* NativeExcelParser (src/src/core/xmlParser.ts) and ZipHandler            *)
(* (src/unnamed/part_001).                                                 *)
(*                                                                         *)
(* Text that the code inspects character by character (cell references,    *)
(* row numbers, sheet ids, worksheet file names) is a sequence of          *)
(* one-character strings, so that the regular expressions and parseInt are *)
(* computed, not assumed.  Text the code only copies (cell values, sheet   *)
(* names, the bytes of opaque parts) is a TLA+ string.  An XML document is *)
(* its element tree; xmldom's parse and serialize are library code outside *)
(* the repository and are taken to round-trip a tree.                      *)
(***************************************************************************)
EXTENDS Integers, Sequences, FiniteSets, TLC

(***************************************************************************)
(* Bounds of the model.                                                    *)
(***************************************************************************)
MaxUpdates == 2
MaxCalls == 2
MaxTime == 0
MaxInFlight == 2
MaxConcUpdates == 1

(***************************************************************************)
(* Characters and numbers.                                                 *)
(***************************************************************************)
Upper ==
  {"A","B","C","D","E","F","G","H","I","J","K","L","M",
   "N","O","P","Q","R","S","T","U","V","W","X","Y","Z"}

DigitChars == <<"0","1","2","3","4","5","6","7","8","9">>

Digit == {DigitChars[i] : i \in 1..10}

DigitVal(c) == (CHOOSE i \in 1..10 : DigitChars[i] = c) - 1

\* What parseInt gives for text with no leading digit.
NaN == -1

\* The longest prefix of s made of digits.
DigitPrefixLen(s) ==
  IF \A i \in 1..Len(s) : s[i] \in Digit THEN Len(s)
  ELSE (CHOOSE i \in 1..Len(s) :
          s[i] \notin Digit /\ \A j \in 1..(i-1) : s[j] \in Digit) - 1

RECURSIVE DigitsValue(_)
DigitsValue(ds) ==
  IF ds = <<>> THEN 0
  ELSE 10 * DigitsValue(SubSeq(ds, 1, Len(ds) - 1)) + DigitVal(ds[Len(ds)])

\* JavaScript parseInt(s) in base 10 on text without sign or white space.
parseInt(s) ==
  IF DigitPrefixLen(s) = 0 THEN NaN
  ELSE DigitsValue(SubSeq(s, 1, DigitPrefixLen(s)))

\* The decimal text of a number n >= 0, as a template literal renders it.
RECURSIVE NumberText(_)
NumberText(n) ==
  IF n < 10 THEN <<DigitChars[n + 1]>>
  ELSE Append(NumberText(n \div 10), DigitChars[(n % 10) + 1])

(***************************************************************************)
(* Worksheet XML: the sheetData element, its rows and their cells.         *)
(* An absent attribute reads as the empty text, as xmldom's getAttribute   *)
(* returns it.                                                             *)
(***************************************************************************)
NewCell(cellRef) ==
  [r |-> cellRef, t |-> "", s |-> "", hasV |-> FALSE, v |-> "",
   hasF |-> FALSE, f |-> ""]

NewRow(row) == [r |-> row, cells |-> <<>>]

\* The cell nodes of a document, in document order.
RECURSIVE CellsOfRows(_)
CellsOfRows(rows) ==
  IF rows = <<>> THEN <<>>
  ELSE CellsOfRows(SubSeq(rows, 1, Len(rows) - 1)) \o rows[Len(rows)].cells

AllCells(xml) == CellsOfRows(xml.rows)

(***************************************************************************)
(* NativeExcelParser.parseCellRef                                          *)
(***************************************************************************)
\* The match taking every character that is no digit for a column letter.
RefSplitsAnyLetter(cellRef) ==
  {k \in 1..(Len(cellRef) - 1) :
      /\ \A i \in 1..k : cellRef[i] \notin Digit
      /\ \A i \in (k+1)..Len(cellRef) : cellRef[i] \in Digit}

\* cellRef.match(/^([A-Z]+)(\d+)$/): the places where the column can end.
RefSplits(cellRef) ==
  {k \in 1..(Len(cellRef) - 1) :
      /\ \A i \in 1..k : cellRef[i] \in Upper
      /\ \A i \in (k+1)..Len(cellRef) : cellRef[i] \in Digit}

\* parseCellRef without the test that the row is positive.
parseCellRefAnyRow(cellRef) ==
  IF RefSplits(cellRef) = {}
    THEN [ok |-> FALSE, column |-> <<>>, row |-> <<>>]
    ELSE LET k == CHOOSE x \in RefSplits(cellRef) : TRUE
         IN [ok |-> TRUE, column |-> SubSeq(cellRef, 1, k),
             row |-> SubSeq(cellRef, k + 1, Len(cellRef))]

parseCellRef(cellRef) ==
  IF RefSplits(cellRef) = {}
    THEN [ok |-> FALSE, column |-> <<>>, row |-> <<>>]
    ELSE LET k == CHOOSE x \in RefSplits(cellRef) : TRUE
             column == SubSeq(cellRef, 1, k)
             row == SubSeq(cellRef, k + 1, Len(cellRef))
             rowNum == parseInt(row)
         IN IF column = <<>> \/ rowNum = NaN \/ rowNum <= 0
              THEN [ok |-> FALSE, column |-> <<>>, row |-> <<>>]
              ELSE [ok |-> TRUE, column |-> column, row |-> row]

(***************************************************************************)
(* NativeExcelParser.findOrCreateCell and updateCellContent                *)
(***************************************************************************)
\* The rows whose r attribute reads as the number rowNum.
RowsNumbered(rows, rowNum) ==
  {i \in 1..Len(rows) :
      parseInt(IF rows[i].r = <<>> THEN <<"0">> ELSE rows[i].r) = rowNum}

CellsReferenced(cells, cellRef) ==
  {j \in 1..Len(cells) : cells[j].r = cellRef}

Min(S) == CHOOSE x \in S : \A y \in S : x <= y

\* findOrCreateCell comparing a cell's reference with the column alone, so
\* that no cell is ever found.
findOrCreateCellByColumn(xml, cellRef) ==
  LET p == parseCellRef(cellRef)
      rowNum == parseInt(p.row)
      found == RowsNumbered(xml.rows, rowNum)
      rows1 == IF found = {} THEN Append(xml.rows, NewRow(p.row)) ELSE xml.rows
      ri == IF found = {} THEN Len(rows1) ELSE Min(found)
      cells == rows1[ri].cells
      hit == CellsReferenced(cells, p.column)
      cells1 == IF hit = {} THEN Append(cells, NewCell(cellRef)) ELSE cells
      ci == IF hit = {} THEN Len(cells1) ELSE Min(hit)
  IN [xml |-> [xml EXCEPT !.rows = [rows1 EXCEPT ![ri].cells = cells1]],
      ri |-> ri, ci |-> ci]

\* findOrCreateCell putting a new cell in the place of the row's last cell
\* instead of after it.
findOrCreateCellReplacing(xml, cellRef) ==
  LET p == parseCellRef(cellRef)
      rowNum == parseInt(p.row)
      found == RowsNumbered(xml.rows, rowNum)
      rows1 == IF found = {} THEN Append(xml.rows, NewRow(p.row)) ELSE xml.rows
      ri == IF found = {} THEN Len(rows1) ELSE Min(found)
      cells == rows1[ri].cells
      hit == CellsReferenced(cells, cellRef)
      cells1 == IF hit # {} THEN cells
                ELSE IF cells = <<>> THEN <<NewCell(cellRef)>>
                ELSE [cells EXCEPT ![Len(cells)] = NewCell(cellRef)]
      ci == IF hit = {} THEN Len(cells1) ELSE Min(hit)
  IN [xml |-> [xml EXCEPT !.rows = [rows1 EXCEPT ![ri].cells = cells1]],
      ri |-> ri, ci |-> ci]

\* findOrCreateCell putting a new row before the rows that are there.
findOrCreateCellRowFirst(xml, cellRef) ==
  LET p == parseCellRef(cellRef)
      rowNum == parseInt(p.row)
      found == RowsNumbered(xml.rows, rowNum)
      rows1 == IF found = {} THEN <<NewRow(p.row)>> \o xml.rows ELSE xml.rows
      ri == IF found = {} THEN 1 ELSE Min(found)
      cells == rows1[ri].cells
      hit == CellsReferenced(cells, cellRef)
      cells1 == IF hit = {} THEN Append(cells, NewCell(cellRef)) ELSE cells
      ci == IF hit = {} THEN Len(cells1) ELSE Min(hit)
  IN [xml |-> [xml EXCEPT !.rows = [rows1 EXCEPT ![ri].cells = cells1]],
      ri |-> ri, ci |-> ci]

\* The document after the call and the place (row, cell) of the cell returned.
findOrCreateCell(xml, cellRef) ==
  LET p == parseCellRef(cellRef)
      rowNum == parseInt(p.row)
      found == RowsNumbered(xml.rows, rowNum)
      rows1 == IF found = {} THEN Append(xml.rows, NewRow(p.row)) ELSE xml.rows
      ri == IF found = {} THEN Len(rows1) ELSE Min(found)
      cells == rows1[ri].cells
      hit == CellsReferenced(cells, cellRef)
      cells1 == IF hit = {} THEN Append(cells, NewCell(cellRef)) ELSE cells
      ci == IF hit = {} THEN Len(cells1) ELSE Min(hit)
  IN [xml |-> [xml EXCEPT !.rows = [rows1 EXCEPT ![ri].cells = cells1]],
      ri |-> ri, ci |-> ci]

\* updateCellContent leaving the formula node of the cell in place.
updateCellContentKeepingFormula(cell, value) ==
  [cell EXCEPT !.t = "s", !.s = "1", !.hasV = TRUE, !.v = value]

updateCellContent(cell, value) ==
  [cell EXCEPT !.t = "s", !.s = "1", !.hasV = TRUE, !.v = value,
               !.hasF = FALSE, !.f = ""]

(***************************************************************************)
(* NativeExcelParser.parseSheet: the cell table derived from a document.   *)
(***************************************************************************)
CellData(cell) ==
  [value |-> IF cell.hasV THEN cell.v ELSE "",
   type |-> IF cell.t = "" THEN "n" ELSE cell.t,
   hasFormula |-> cell.hasF,
   formula |-> IF cell.hasF THEN cell.f ELSE ""]

\* sheet.data.set(cellRef, cellData) for each cell in turn: the last cell
\* with a reference decides its record; a cell without reference is skipped.
ParsedData(xml) ==
  LET cells == AllCells(xml)
      refs == {cells[j].r : j \in 1..Len(cells)} \ {<<>>}
      lastOf(ref) == CHOOSE j \in 1..Len(cells) :
                        /\ cells[j].r = ref
                        /\ \A k \in (j+1)..Len(cells) : cells[k].r # ref
  IN [ref \in refs |-> CellData(cells[lastOf(ref)])]

(***************************************************************************)
(* The parser's registry of sheets: a JavaScript Map from sheet name to    *)
(* {name, data, xmlContent}, kept as the sequence of its entries in        *)
(* insertion order.                                                        *)
(***************************************************************************)
SheetIndexes(ss, sheetName) == {i \in 1..Len(ss) : ss[i].name = sheetName}

HasSheet(ss, sheetName) == SheetIndexes(ss, sheetName) # {}

SheetAt(ss, sheetName) == ss[CHOOSE i \in SheetIndexes(ss, sheetName) : TRUE]

\* Map.set: an existing key keeps its place, a new key goes last.
MapSet(ss, entry) ==
  IF HasSheet(ss, entry.name)
    THEN [i \in 1..Len(ss) |-> IF ss[i].name = entry.name THEN entry ELSE ss[i]]
    ELSE Append(ss, entry)

\* getSheetNames
getSheetNames(ss) == [i \in 1..Len(ss) |-> ss[i].name]

\* getSheetCount
getSheetCount(ss) == Len(ss)

(***************************************************************************)
(* NativeExcelParser.parseSheet                                            *)
(***************************************************************************)
\* parseSheet registering the sheet, without cells, before it fails.
parseSheetRegistering(ss, xmlContent, sheetName) ==
  IF ~xmlContent.hasSheetData
    THEN [result |-> "SheetDataMissing",
          sheets |-> MapSet(ss, [name |-> sheetName,
                                 data |-> ParsedData(xmlContent),
                                 xmlContent |-> xmlContent])]
    ELSE [result |-> "ok",
          sheets |-> MapSet(ss, [name |-> sheetName,
                                 data |-> ParsedData(xmlContent),
                                 xmlContent |-> xmlContent])]

parseSheet(ss, xmlContent, sheetName) ==
  IF ~xmlContent.hasSheetData
    THEN [result |-> "SheetDataMissing", sheets |-> ss]
    ELSE [result |-> "ok",
          sheets |-> MapSet(ss, [name |-> sheetName,
                                 data |-> ParsedData(xmlContent),
                                 xmlContent |-> xmlContent])]

(***************************************************************************)
(* NativeExcelParser.updateCell                                            *)
(***************************************************************************)
\* sheet.data.get(cellRef) || { value: '', type: 's' }, then .value = value
UpdatedData(data, cellRef, value) ==
  LET old == IF cellRef \in DOMAIN data
               THEN data[cellRef]
               ELSE [value |-> "", type |-> "s", hasFormula |-> FALSE,
                     formula |-> ""]
  IN [ref \in DOMAIN data \cup {cellRef} |->
        IF ref = cellRef THEN [old EXCEPT !.value = value] ELSE data[ref]]

\* The document with the cell found or created and its content replaced.
\* updateCell moving the cell it updated to the end of its row.
UpdatedXmlMovingLast(xml, cellRef, value) ==
  LET fc == findOrCreateCell(xml, cellRef)
      cells == fc.xml.rows[fc.ri].cells
      others == [k \in 1..(Len(cells) - 1) |->
                   IF k < fc.ci THEN cells[k] ELSE cells[k + 1]]
  IN [fc.xml EXCEPT !.rows[fc.ri].cells =
        Append(others, updateCellContent(cells[fc.ci], value))]

UpdatedXml(xml, cellRef, value) ==
  LET fc == findOrCreateCell(xml, cellRef)
  IN [fc.xml EXCEPT !.rows[fc.ri].cells[fc.ci] =
        updateCellContent(fc.xml.rows[fc.ri].cells[fc.ci], value)]

nativeUpdateCell(ss, sheetName, cellRef, value) ==
  IF ~HasSheet(ss, sheetName)
    THEN [result |-> "SheetNotFound", sheets |-> ss]
  ELSE LET sheet == SheetAt(ss, sheetName) IN
    IF ~sheet.xmlContent.hasSheetData
      THEN [result |-> "SheetDataMissing", sheets |-> ss]
    ELSE IF ~parseCellRef(cellRef).ok
      THEN [result |-> "InvalidCellReference", sheets |-> ss]
    ELSE [result |-> "ok",
          sheets |-> MapSet(ss,
             [name |-> sheet.name,
              data |-> UpdatedData(sheet.data, cellRef, value),
              xmlContent |-> UpdatedXml(sheet.xmlContent, cellRef, value)])]

(***************************************************************************)
(* ExcelWorkbook.updateCell                                                *)
(***************************************************************************)
\* updateCell falling back to the first loaded sheet for an unknown name.
workbookUpdateCellFallback(info, ss, sheetName, cellRef, value) ==
  IF sheetName \notin DOMAIN info /\ ss # <<>>
    THEN nativeUpdateCell(ss, ss[1].name, cellRef, value)
    ELSE nativeUpdateCell(ss, sheetName, cellRef, value)

\* updateCell looking at the cell reference before the sheet name.
workbookUpdateCellRefFirst(info, ss, sheetName, cellRef, value) ==
  IF ~parseCellRef(cellRef).ok
    THEN [result |-> "InvalidCellReference", sheets |-> ss]
  ELSE IF sheetName \notin DOMAIN info
    THEN [result |-> "SheetNotFound", sheets |-> ss]
    ELSE nativeUpdateCell(ss, sheetName, cellRef, value)

workbookUpdateCell(info, ss, sheetName, cellRef, value) ==
  IF sheetName \notin DOMAIN info
    THEN [result |-> "SheetNotFound", sheets |-> ss]
    ELSE nativeUpdateCell(ss, sheetName, cellRef, value)

(***************************************************************************)
(* Packages.  A directory tree (an extracted package) holds the manifest   *)
(* xl/workbook.xml with its sheet elements, the files of xl/worksheets in  *)
(* directory order, the relationships of xl/_rels/workbook.xml.rels (none  *)
(* when the package has no such part), and the other parts by name.  A     *)
(* worksheet file name is base, num and ext: sheet01.xml is                *)
(* ("sheet", <<"0","1">>, "xml").  A relationship id rId<N> is the text N. *)
(***************************************************************************)
NoParts == [n \in {} |-> ""]

EmptyTree ==
  [manifest |-> FALSE, sheetsEl |-> <<>>, wsDir |-> FALSE, ws |-> <<>>,
   rels |-> <<>>, other |-> NoParts]

SheetFile(num) == [base |-> "sheet", num |-> num, ext |-> "xml"]

Cell(ref, t, v) ==
  [r |-> ref, t |-> t, s |-> "", hasV |-> TRUE, v |-> v, hasF |-> FALSE,
   f |-> ""]

\* The worksheet of the parser's tests: A1 (t="s", "Test Value"), B1 (t="n", 42).
XmlTest ==
  [hasSheetData |-> TRUE,
   rows |-> << [r |-> <<"1">>,
                cells |-> << Cell(<<"A","1">>, "s", "Test Value"),
                             Cell(<<"B","1">>, "n", "42") >>] >>]

\* A worksheet with a formula cell without type, and a cell without value.
XmlFormula ==
  [hasSheetData |-> TRUE,
   rows |-> << [r |-> <<"2">>,
                cells |-> << [Cell(<<"A","2">>, "", "7") EXCEPT
                                 !.hasF = TRUE, !.f = "SUM(B2)", !.s = "3"],
                             NewCell(<<"B","2">>) >>] >>]

\* A worksheet part without sheetData.
XmlNoData == [hasSheetData |-> FALSE, rows |-> <<>>]

BaseParts ==
  [n \in {"_rels/.rels", "xl/sharedStrings.xml"} |->
     IF n = "_rels/.rels" THEN "rels-bytes" ELSE "sst-bytes"]

MacroParts ==
  [n \in {"_rels/.rels", "xl/sharedStrings.xml", "xl/vbaProject.bin"} |->
     IF n = "_rels/.rels" THEN "rels-with-vba-bytes"
     ELSE IF n = "xl/sharedStrings.xml" THEN "sst-bytes"
     ELSE "dummy vba project content"]

\* <sheet name sheetId r:id>, with r:id="rId<sheetId>" as in the test packages.
SheetEl(name, sheetId) == [name |-> name, sheetId |-> sheetId, rid |-> sheetId]

Tree(sheetsEl, ws, other) ==
  [manifest |-> TRUE, sheetsEl |-> sheetsEl, wsDir |-> TRUE, ws |-> ws,
   rels |-> <<>>, other |-> other]

Package(tree) == [archive |-> TRUE, tree |-> tree]

S1 == "Sheet1"
S2 == "Sheet2"

\* The parts of the package of workbook.test.ts (one sheet, no macros), with
\* the worksheet of the parser's tests in sheet1.xml.
PkgTest ==
  Package(Tree(<<SheetEl(S1, <<"1">>)>>,
               <<[file |-> SheetFile(<<"1">>), xml |-> XmlTest]>>, BaseParts))

\* The parts of the macro-enabled package of workbook.test.ts, with the same
\* worksheet.
PkgMacro ==
  Package(Tree(<<SheetEl(S1, <<"1">>)>>,
               <<[file |-> SheetFile(<<"1">>), xml |-> XmlTest]>>, MacroParts))

\* Two sheets, macros, a file that is no .xml file, an .xml file that is no
\* sheet<N>.xml, and a sheet3.xml that no sheet element names.
PkgTwo ==
  Package(Tree(<<SheetEl(S1, <<"1">>), SheetEl(S2, <<"2">>)>>,
               <<[file |-> SheetFile(<<"1">>), xml |-> XmlTest],
                 [file |-> SheetFile(<<"2">>), xml |-> XmlFormula],
                 [file |-> SheetFile(<<"3">>), xml |-> XmlNoData],
                 [file |-> [base |-> "sheet", num |-> <<"1">>, ext |-> "bak"],
                  xml |-> XmlNoData],
                 [file |-> [base |-> "data", num |-> <<>>, ext |-> "xml"],
                  xml |-> XmlNoData]>>, MacroParts))

\* Two sheets whose files the directory lists in the other order.
PkgTwoReversed ==
  Package(Tree(<<SheetEl(S1, <<"1">>), SheetEl(S2, <<"2">>)>>,
               <<[file |-> SheetFile(<<"2">>), xml |-> XmlFormula],
                 [file |-> SheetFile(<<"1">>), xml |-> XmlTest]>>, BaseParts))

\* Not a ZIP archive.
PkgNotZip == [archive |-> FALSE, tree |-> EmptyTree]

\* An archive without xl/workbook.xml.
PkgNoManifest ==
  Package([Tree(<<>>, <<[file |-> SheetFile(<<"1">>), xml |-> XmlTest]>>,
                BaseParts) EXCEPT !.manifest = FALSE])

\* An archive without the directory xl/worksheets.
PkgNoWorksheets ==
  Package([Tree(<<SheetEl(S1, <<"1">>)>>, <<>>, BaseParts)
             EXCEPT !.wsDir = FALSE])

\* The second worksheet has no sheetData.
PkgNoSheetData ==
  Package(Tree(<<SheetEl(S1, <<"1">>), SheetEl(S2, <<"2">>)>>,
               <<[file |-> SheetFile(<<"1">>), xml |-> XmlTest],
                 [file |-> SheetFile(<<"2">>), xml |-> XmlNoData]>>, BaseParts))

\* A manifest without sheet elements.
PkgNoSheets ==
  Package(Tree(<<>>, <<[file |-> SheetFile(<<"1">>), xml |-> XmlTest]>>,
               BaseParts))

\* A sheet element without name.
PkgNoName ==
  Package(Tree(<<SheetEl("", <<"1">>)>>,
               <<[file |-> SheetFile(<<"1">>), xml |-> XmlTest]>>, BaseParts))

\* The manifest names a second sheet whose worksheet file is absent.
PkgMissingFile ==
  Package(Tree(<<SheetEl(S1, <<"1">>), SheetEl(S2, <<"2">>)>>,
               <<[file |-> SheetFile(<<"1">>), xml |-> XmlTest]>>, BaseParts))

\* sheetId="01" with the worksheet in sheet01.xml.
PkgLeadingZero ==
  Package(Tree(<<SheetEl(S1, <<"0","1">>)>>,
               <<[file |-> SheetFile(<<"0","1">>), xml |-> XmlTest]>>,
               MacroParts))

\* As PkgLeadingZero, with a sheet1.xml that no sheet element names.
PkgLeadingZeroOrphan ==
  Package(Tree(<<SheetEl(S1, <<"0","1">>)>>,
               <<[file |-> SheetFile(<<"0","1">>), xml |-> XmlTest],
                 [file |-> SheetFile(<<"1">>), xml |-> XmlFormula]>>,
               BaseParts))

\* Two sheet elements of one name.
PkgDuplicateName ==
  Package(Tree(<<SheetEl(S1, <<"2">>), SheetEl(S1, <<"1">>)>>,
               <<[file |-> SheetFile(<<"1">>), xml |-> XmlTest],
                 [file |-> SheetFile(<<"2">>), xml |-> XmlFormula]>>,
               BaseParts))

\* A package with a relationship part: rId1 (Sheet1) has the target
\* worksheets/sheet2.xml, rId2 (Sheet2) the target worksheets/sheet1.xml.
PkgRels ==
  Package([Tree(<<SheetEl(S1, <<"1">>), SheetEl(S2, <<"2">>)>>,
                <<[file |-> SheetFile(<<"1">>), xml |-> XmlFormula],
                  [file |-> SheetFile(<<"2">>), xml |-> XmlTest]>>, BaseParts)
             EXCEPT !.rels = <<[id |-> <<"1">>, target |-> SheetFile(<<"2">>)],
                              [id |-> <<"2">>, target |-> SheetFile(<<"1">>)]>>])

Packages ==
  {PkgTest, PkgMacro, PkgTwo, PkgTwoReversed, PkgNotZip, PkgNoManifest,
   PkgNoWorksheets, PkgNoSheetData, PkgNoSheets, PkgNoName, PkgMissingFile,
   PkgLeadingZero, PkgLeadingZeroOrphan, PkgDuplicateName, PkgRels}

\* The names of the parts (files) of a tree.
WsFiles(tree) == {tree.ws[i].file : i \in 1..Len(tree.ws)}

WsXml(tree, file) ==
  tree.ws[CHOOSE i \in 1..Len(tree.ws) : tree.ws[i].file = file].xml

\* AdmZip.extractAllTo(dir, true): the files of the archive overwrite those
\* of the directory; other files of the directory stay.
ExtractInto(old, new) ==
  [manifest |-> new.manifest \/ old.manifest,
   sheetsEl |-> IF new.manifest THEN new.sheetsEl ELSE old.sheetsEl,
   wsDir |-> new.wsDir \/ old.wsDir,
   ws |-> new.ws \o
          SelectSeq(old.ws, LAMBDA e : e.file \notin WsFiles(new)),
   rels |-> IF new.rels # <<>> THEN new.rels ELSE old.rels,
   other |-> [n \in DOMAIN new.other \cup DOMAIN old.other |->
                IF n \in DOMAIN new.other THEN new.other[n] ELSE old.other[n]]]

(***************************************************************************)
(* The state: the package at filePath, the clock, the session (sheetInfo   *)
(* of ExcelWorkbook, sheets of its NativeExcelParser), the read and write  *)
(* calls in flight, the scratch directories under the temporary directory, *)
(* the package at outputPath, and the operation that returned last.        *)
(***************************************************************************)
VARIABLES pkg, now, sheetInfo, sheets, calls, dirs, out, last, nUpdates, nCalls

vars == <<pkg, now, sheetInfo, sheets, calls, dirs, out, last, nUpdates, nCalls>>

Slots == 1..MaxInFlight

NoDirName == [kind |-> "", t |-> 0]

\* os.tmpdir()/excel-macros-lib/<ms> for a read, .../temp-<ms> for a write.
DirNames == {[kind |-> k, t |-> t] : k \in {"r", "w"}, t \in 0..MaxTime}

NoDir == [exists |-> FALSE, tree |-> EmptyTree]

NoListing == [manifest |-> FALSE, ws |-> {}, rels |-> FALSE, other |-> {}]

Idle ==
  [kind |-> "none", pc |-> "idle", dir |-> NoDirName, lsheets |-> <<>>,
   files |-> <<>>, i |-> 0, names |-> <<>>, listing |-> NoListing]

NoOp ==
  [op |-> "none", sheet |-> "", ref |-> <<>>, value |-> "", result |-> "",
   existed |-> FALSE, dir |-> NoDirName, inSize |-> 0, outSize |-> 0,
   warned |-> FALSE]

Returned(op, result, dir) == [NoOp EXCEPT !.op = op, !.result = result, !.dir = dir]

\* Inputs of updateCell: references of cells the worksheets hold (A1, B1, A2),
\* of cells they do not hold (C1, A01), and texts that are no reference
\* ("", 1A, A0, a1, A1B, InvalidRef).
RefInputs ==
  {<<"A","1">>, <<"B","1">>, <<"A","2">>, <<"C","1">>, <<"A","0","1">>,
   <<>>, <<"1","A">>, <<"A","0">>, <<"a","1">>, <<"A","1","B">>,
   <<"I","n","v","a","l","i","d","R","e","f">>}

SheetNameInputs == {S1, S2, "NonExistentSheet"}

Values == {"New Value"}

Init ==
  /\ pkg \in Packages
  /\ now = 0
  /\ sheetInfo = NoParts
  /\ sheets = <<>>
  /\ calls = [c \in Slots |-> Idle]
  /\ dirs = [d \in DirNames |-> NoDir]
  /\ out = [written |-> FALSE, tree |-> EmptyTree]
  /\ last = NoOp
  /\ nUpdates = 0
  /\ nCalls = 0

Busy == \E c \in Slots : calls[c].kind # "none"

\* A call throws: nothing after the throwing statement runs.
Throw(c, result) ==
  /\ calls' = [calls EXCEPT ![c] = Idle]
  /\ last' = Returned(IF calls[c].kind = "read" THEN "readWorkbook"
                      ELSE "writeWorkbook", result, calls[c].dir)

TreeOf(d) == IF dirs[d].exists THEN dirs[d].tree ELSE EmptyTree

\* Whether the sheet is loaded and its document has a cell node for cellRef.
HasCellNode(ss, sheetName, cellRef) ==
  /\ HasSheet(ss, sheetName)
  /\ CellsReferenced(AllCells(SheetAt(ss, sheetName).xmlContent), cellRef) # {}

(***************************************************************************)
(* ExcelWorkbook.updateCell; last.existed records whether the cell node    *)
(* was there before the call.                                              *)
(***************************************************************************)
\* updateCell entering a sheet name it does not find into the sheet index.
UpdateCellRegistering ==
  /\ nUpdates < MaxUpdates
  /\ \E sheetName \in SheetNameInputs, cellRef \in RefInputs, value \in Values :
       LET res == workbookUpdateCell(sheetInfo, sheets, sheetName, cellRef, value)
       IN /\ sheets' = res.sheets
          /\ sheetInfo' = [n \in DOMAIN sheetInfo \cup {sheetName} |->
                             IF n \in DOMAIN sheetInfo THEN sheetInfo[n]
                             ELSE <<"1">>]
          /\ last' = [NoOp EXCEPT
                        !.op = "updateCell", !.sheet = sheetName, !.ref = cellRef,
                        !.value = value, !.result = res.result,
                        !.existed = HasCellNode(sheets, sheetName, cellRef)]
  /\ nUpdates' = nUpdates + 1
  /\ UNCHANGED <<pkg, now, calls, dirs, out, nCalls>>

UpdateCell ==
  /\ nUpdates < MaxUpdates
  /\ \E sheetName \in SheetNameInputs, cellRef \in RefInputs, value \in Values :
       LET res == workbookUpdateCell(sheetInfo, sheets, sheetName, cellRef, value)
       IN /\ sheets' = res.sheets
          /\ last' = [NoOp EXCEPT
                        !.op = "updateCell", !.sheet = sheetName, !.ref = cellRef,
                        !.value = value, !.result = res.result,
                        !.existed = HasCellNode(sheets, sheetName, cellRef)]
  /\ nUpdates' = nUpdates + 1
  /\ UNCHANGED <<pkg, now, sheetInfo, calls, dirs, out, nCalls>>

(***************************************************************************)
(* ExcelWorkbook.readWorkbook, one step for each await                     *)
(***************************************************************************)
\* The call starts: ZipHandler.extractWorkbook names the directory by
\* Date.now() and awaits mkdir.
StartRead(c) ==
  /\ calls[c].kind = "none"
  /\ nCalls < MaxCalls
  /\ \E t \in now..MaxTime :
       /\ now' = t
       /\ calls' = [calls EXCEPT ![c] =
             [Idle EXCEPT !.kind = "read", !.pc = "extract",
                          !.dir = [kind |-> "r", t |-> t]]]
  /\ nCalls' = nCalls + 1
  /\ last' = NoOp
  /\ UNCHANGED <<pkg, sheetInfo, sheets, dirs, out, nUpdates>>

\* mkdir is done; new AdmZip(filePath) and extractAllTo run.
ReadExtract(c) ==
  /\ calls[c].kind = "read" /\ calls[c].pc = "extract"
  /\ LET d == calls[c].dir IN
       IF ~pkg.archive
         THEN /\ dirs' = [dirs EXCEPT ![d] = [exists |-> TRUE, tree |-> TreeOf(d)]]
              /\ Throw(c, "PackageOpenError")
         ELSE /\ dirs' = [dirs EXCEPT ![d] =
                    [exists |-> TRUE, tree |-> ExtractInto(TreeOf(d), pkg.tree)]]
              /\ calls' = [calls EXCEPT ![c].pc = "manifest"]
              /\ last' = last
  /\ UNCHANGED <<pkg, now, sheetInfo, sheets, out, nUpdates, nCalls>>

\* this.sheetInfo.set(sheetName, ...) for each sheet element with a name and
\* a sheetId, in manifest order.
StoreSheetInfo(info, els) ==
  LET ok == {i \in 1..Len(els) : els[i].name # "" /\ els[i].sheetId # <<>>}
      names == {els[i].name : i \in ok}
      lastOf(n) == CHOOSE i \in ok :
                     /\ els[i].name = n
                     /\ \A j \in ok : els[j].name = n => j <= i
  IN [n \in DOMAIN info \cup names |->
        IF n \in names THEN els[lastOf(n)].sheetId ELSE info[n]]

\* xl/workbook.xml is read; its sheet elements are stored.
ReadManifest(c) ==
  /\ calls[c].kind = "read" /\ calls[c].pc = "manifest"
  /\ LET tree == TreeOf(calls[c].dir) IN
       IF ~tree.manifest
         THEN /\ Throw(c, "IOError")
              /\ sheetInfo' = sheetInfo
         ELSE /\ sheetInfo' = StoreSheetInfo(sheetInfo, tree.sheetsEl)
              /\ calls' = [calls EXCEPT ![c].pc = "readdir",
                                        ![c].lsheets = tree.sheetsEl]
              /\ last' = last
  /\ UNCHANGED <<pkg, now, sheets, dirs, out, nUpdates, nCalls>>

\* readdir(xl/worksheets) is done.
ReadDir(c) ==
  /\ calls[c].kind = "read" /\ calls[c].pc = "readdir"
  /\ LET tree == TreeOf(calls[c].dir) IN
       IF ~tree.wsDir
         THEN Throw(c, "IOError")
         ELSE /\ calls' = [calls EXCEPT
                    ![c].files = [i \in 1..Len(tree.ws) |-> tree.ws[i].file],
                    ![c].i = 1,
                    ![c].pc = IF tree.ws = <<>> THEN "rm" ELSE "file"]
              /\ last' = last
  /\ UNCHANGED <<pkg, now, sheetInfo, sheets, dirs, out, nUpdates, nCalls>>

\* ExcelWorkbook.getSheetNameFromWorkbook; null reads as the empty name.
getSheetNameFromWorkbook(els, sheetFile) ==
  IF ~(/\ sheetFile.base = "sheet"
       /\ sheetFile.num # <<>>
       /\ \A i \in 1..Len(sheetFile.num) : sheetFile.num[i] \in Digit
       /\ sheetFile.ext = "xml")
    THEN ""
    ELSE LET hit == {i \in 1..Len(els) : els[i].sheetId = sheetFile.num}
         IN IF hit = {} THEN "" ELSE els[Min(hit)].name

Advance(c) ==
  [calls EXCEPT ![c].i = @ + 1,
                ![c].pc = IF calls[c].i = Len(calls[c].files) THEN "rm" ELSE @]

\* The next file of xl/worksheets: read, named and parsed.
ReadSheetFile(c) ==
  /\ calls[c].kind = "read" /\ calls[c].pc = "file"
  /\ LET tree == TreeOf(calls[c].dir)
         sheetFile == calls[c].files[calls[c].i]
         sheetName == getSheetNameFromWorkbook(calls[c].lsheets, sheetFile)
     IN IF sheetFile.ext # "xml"
          THEN calls' = Advance(c) /\ sheets' = sheets /\ last' = last
        ELSE IF sheetFile \notin WsFiles(tree)
          THEN Throw(c, "IOError") /\ sheets' = sheets
        ELSE IF sheetName = ""
          THEN calls' = Advance(c) /\ sheets' = sheets /\ last' = last
        ELSE LET res == parseSheet(sheets, WsXml(tree, sheetFile), sheetName)
             IN IF res.result # "ok"
                  THEN Throw(c, res.result) /\ sheets' = res.sheets
                  ELSE calls' = Advance(c) /\ sheets' = res.sheets /\ last' = last
  /\ UNCHANGED <<pkg, now, sheetInfo, dirs, out, nUpdates, nCalls>>

\* rm(tempDir) is done; the call returns.
ReadRm(c) ==
  /\ calls[c].kind = "read" /\ calls[c].pc = "rm"
  /\ dirs' = [dirs EXCEPT ![calls[c].dir] = NoDir]
  /\ calls' = [calls EXCEPT ![c] = Idle]
  /\ last' = Returned("readWorkbook", "ok", calls[c].dir)
  /\ UNCHANGED <<pkg, now, sheetInfo, sheets, out, nUpdates, nCalls>>

(***************************************************************************)
(* ExcelWorkbook.writeWorkbook, one step for each await                    *)
(***************************************************************************)
\* The call starts: the directory is named temp-<Date.now()>, mkdir awaited.
StartWrite(c) ==
  /\ calls[c].kind = "none"
  /\ nCalls < MaxCalls
  /\ \E t \in now..MaxTime :
       /\ now' = t
       /\ calls' = [calls EXCEPT ![c] =
             [Idle EXCEPT !.kind = "write", !.pc = "extract",
                          !.dir = [kind |-> "w", t |-> t]]]
  /\ nCalls' = nCalls + 1
  /\ last' = NoOp
  /\ UNCHANGED <<pkg, sheetInfo, sheets, dirs, out, nUpdates>>

\* mkdir is done; new AdmZip(this.filePath) and extractAllTo run.
WriteExtract(c) ==
  /\ calls[c].kind = "write" /\ calls[c].pc = "extract"
  /\ LET d == calls[c].dir IN
       IF ~pkg.archive
         THEN /\ dirs' = [dirs EXCEPT ![d] = [exists |-> TRUE, tree |-> TreeOf(d)]]
              /\ Throw(c, "PackageOpenError")
         ELSE /\ dirs' = [dirs EXCEPT ![d] =
                    [exists |-> TRUE, tree |-> ExtractInto(TreeOf(d), pkg.tree)]]
              /\ calls' = [calls EXCEPT ![c].pc = "list"]
              /\ last' = last
  /\ UNCHANGED <<pkg, now, sheetInfo, sheets, out, nUpdates, nCalls>>

\* getAllFiles(tempDir): the files of the directory.
getAllFiles(tree) ==
  [manifest |-> tree.manifest, ws |-> WsFiles(tree), rels |-> tree.rels # <<>>,
   other |-> DOMAIN tree.other]

\* getAllFiles is done; the names of the parser's sheets are taken.
WriteList(c) ==
  /\ calls[c].kind = "write" /\ calls[c].pc = "list"
  /\ IF ~dirs[calls[c].dir].exists
       THEN Throw(c, "IOError")
       ELSE /\ calls' = [calls EXCEPT
                  ![c].listing = getAllFiles(TreeOf(calls[c].dir)),
                  ![c].names = getSheetNames(sheets),
                  ![c].i = 1,
                  ![c].pc = IF sheets = <<>> THEN "zip" ELSE "sheet"]
            /\ last' = last
  /\ UNCHANGED <<pkg, now, sheetInfo, sheets, dirs, out, nUpdates, nCalls>>

\* getSheetNumberFromName taking the sheet id for a zero-based index.
getSheetNumberFromNameOffByOne(info, sheetName) == parseInt(info[sheetName]) + 1

\* ExcelWorkbook.getSheetNumberFromName
getSheetNumberFromName(info, sheetName) == parseInt(info[sheetName])

\* The worksheet file writeWorkbook writes a sheet to: sheet${sheetNumber}.xml
SheetPath(info, sheetName) ==
  SheetFile(NumberText(getSheetNumberFromName(info, sheetName)))

\* fsp.writeFile(sheetPath, sheetXml) in a directory tree.
WriteFile(tree, file, xml) ==
  [tree EXCEPT !.ws =
     IF file \in WsFiles(tree)
       THEN [i \in 1..Len(tree.ws) |->
               IF tree.ws[i].file = file THEN [file |-> file, xml |-> xml]
               ELSE tree.ws[i]]
       ELSE Append(tree.ws, [file |-> file, xml |-> xml])]

\* The next sheet of the parser is written into the directory.
WriteSheet(c) ==
  /\ calls[c].kind = "write" /\ calls[c].pc = "sheet"
  /\ LET d == calls[c].dir
         sheetName == calls[c].names[calls[c].i]
         next == [calls EXCEPT ![c].i = @ + 1,
                    ![c].pc = IF calls[c].i = Len(calls[c].names) THEN "zip" ELSE @]
     IN IF ~HasSheet(sheets, sheetName)
          THEN calls' = next /\ dirs' = dirs /\ last' = last
        ELSE IF sheetName \notin DOMAIN sheetInfo
          THEN Throw(c, "SheetNotFound") /\ dirs' = dirs
        ELSE IF ~dirs[d].exists \/ ~dirs[d].tree.wsDir
          THEN Throw(c, "IOError") /\ dirs' = dirs
        ELSE /\ dirs' = [dirs EXCEPT ![d].tree =
                   WriteFile(@, SheetPath(sheetInfo, sheetName),
                             SheetAt(sheets, sheetName).xmlContent)]
             /\ calls' = next
             /\ last' = last
  /\ UNCHANGED <<pkg, now, sheetInfo, sheets, out, nUpdates, nCalls>>

\* zip.addLocalFile for each of allFiles, then zip.writeZip(outputPath).
ZipOf(tree, allFiles) ==
  [manifest |-> allFiles.manifest,
   sheetsEl |-> IF allFiles.manifest THEN tree.sheetsEl ELSE <<>>,
   wsDir |-> allFiles.ws # {},
   ws |-> SelectSeq(tree.ws, LAMBDA e : e.file \in allFiles.ws),
   rels |-> IF allFiles.rels THEN tree.rels ELSE <<>>,
   other |-> [n \in allFiles.other |-> tree.other[n]]]

AllPresent(tree, allFiles) ==
  /\ allFiles.manifest => tree.manifest
  /\ allFiles.ws \subseteq WsFiles(tree)
  /\ allFiles.rels => tree.rels # <<>>
  /\ allFiles.other \subseteq DOMAIN tree.other

\* The output archive is written; rm(tempDir) is awaited.
WriteZip(c) ==
  /\ calls[c].kind = "write" /\ calls[c].pc = "zip"
  /\ LET tree == TreeOf(calls[c].dir) IN
       IF ~AllPresent(tree, calls[c].listing)
         THEN Throw(c, "IOError") /\ out' = out
         ELSE /\ out' = [written |-> TRUE, tree |-> ZipOf(tree, calls[c].listing)]
              /\ calls' = [calls EXCEPT ![c].pc = "rm"]
              /\ last' = last
  /\ UNCHANGED <<pkg, now, sheetInfo, sheets, dirs, nUpdates, nCalls>>

\* The sizes in bytes that fs.statSync can give for the input and for the
\* output file; the bytes of a ZIP archive are the ZIP library's choice.
InputSizes == {10, 11}

OutputSizes == {9, 10}

\* inputStats.size * 0.9 as a double.  The double 0.9 is (9 + 2^-52) / 10,
\* and the product is rounded to the nearest double: for a size below 2^49
\* that is the whole number 9n/10 when 10 divides 9n, and otherwise a number
\* strictly between the whole numbers below and above 9n/10.
TimesNineTenths(n) == [whole |-> (9 * n) \div 10, exact |-> (9 * n) % 10 = 0]

\* The size check warning at the boundary as well.
SizeWarningAtMost(inSize, outSize) ==
  outSize <= TimesNineTenths(inSize).whole

\* outputStats.size < inputStats.size * 0.9
SizeWarning(inSize, outSize) ==
  IF TimesNineTenths(inSize).exact
    THEN outSize < TimesNineTenths(inSize).whole
    ELSE outSize <= TimesNineTenths(inSize).whole

\* writeWorkbook dropping the parser's sheets when it is done.
WriteRmClearing(c) ==
  /\ calls[c].kind = "write" /\ calls[c].pc = "rm"
  /\ dirs' = [dirs EXCEPT ![calls[c].dir] = NoDir]
  /\ calls' = [calls EXCEPT ![c] = Idle]
  /\ sheets' = <<>>
  /\ \E inSize \in InputSizes, outSize \in OutputSizes :
       last' = [Returned("writeWorkbook", "ok", calls[c].dir) EXCEPT
                  !.inSize = inSize, !.outSize = outSize,
                  !.warned = SizeWarning(inSize, outSize)]
  /\ UNCHANGED <<pkg, now, sheetInfo, out, nUpdates, nCalls>>

\* rm(tempDir) is done; the sizes are compared, the warning is or is not
\* given, and the call returns.
WriteRm(c) ==
  /\ calls[c].kind = "write" /\ calls[c].pc = "rm"
  /\ dirs' = [dirs EXCEPT ![calls[c].dir] = NoDir]
  /\ calls' = [calls EXCEPT ![c] = Idle]
  /\ \E inSize \in InputSizes, outSize \in OutputSizes :
       last' = [Returned("writeWorkbook", "ok", calls[c].dir) EXCEPT
                  !.inSize = inSize, !.outSize = outSize,
                  !.warned = SizeWarning(inSize, outSize)]
  /\ UNCHANGED <<pkg, now, sheetInfo, sheets, out, nUpdates, nCalls>>

(***************************************************************************)
(* The specification: a caller that awaits each call before the next, as   *)
(* the example program and the tests do.                                   *)
(***************************************************************************)
CallRead == ~Busy /\ StartRead(1)

CallWrite == ~Busy /\ StartWrite(1)

CallUpdateCell == ~Busy /\ UpdateCell

Step ==
  \E c \in Slots :
    \/ ReadExtract(c)
    \/ ReadManifest(c)
    \/ ReadDir(c)
    \/ ReadSheetFile(c)
    \/ ReadRm(c)
    \/ WriteExtract(c)
    \/ WriteList(c)
    \/ WriteSheet(c)
    \/ WriteZip(c)
    \/ WriteRm(c)

Next == CallRead \/ CallWrite \/ CallUpdateCell \/ Step

Spec == Init /\ [][Next]_vars

\* The sequential caller who, the calls above made and the last of them a
\* writeWorkbook, calls writeWorkbook once more.
CallWriteAgain ==
  /\ ~Busy
  /\ last.op = "writeWorkbook"
  /\ nCalls = MaxCalls
  /\ \E t \in now..MaxTime :
       /\ now' = t
       /\ calls' = [calls EXCEPT ![1] =
             [Idle EXCEPT !.kind = "write", !.pc = "extract",
                          !.dir = [kind |-> "w", t |-> t]]]
  /\ nCalls' = nCalls + 1
  /\ last' = NoOp
  /\ UNCHANGED <<pkg, sheetInfo, sheets, dirs, out, nUpdates>>

NextRewrite == Next \/ CallWriteAgain

SpecRewrite == Init /\ [][NextRewrite]_vars

\* The packages that readWorkbook loads without throwing.
ReadsWell(p) ==
  /\ p.archive /\ p.tree.manifest /\ p.tree.wsDir
  /\ \A k \in 1..Len(p.tree.ws) :
       (/\ p.tree.ws[k].file.ext = "xml"
        /\ getSheetNameFromWorkbook(p.tree.sheetsEl, p.tree.ws[k].file) # "")
         => p.tree.ws[k].xml.hasSheetData

RECURSIVE SheetsRead(_, _, _)
\* The sheets that readWorkbook leaves in the parser: the files of
\* xl/worksheets in directory order, each parsed under the name the manifest
\* gives it.
SheetsRead(ss, tree, k) ==
  IF k > Len(tree.ws) THEN ss
  ELSE LET sheetFile == tree.ws[k].file
           sheetName == getSheetNameFromWorkbook(tree.sheetsEl, sheetFile)
       IN IF sheetFile.ext # "xml" \/ sheetName = ""
            THEN SheetsRead(ss, tree, k + 1)
            ELSE SheetsRead(parseSheet(ss, tree.ws[k].xml, sheetName).sheets,
                            tree, k + 1)

\* The session as a first readWorkbook that did not throw leaves it.
InitLoaded ==
  /\ pkg \in {p \in Packages : ReadsWell(p)}
  /\ now \in 0..MaxTime
  /\ sheetInfo = StoreSheetInfo(NoParts, pkg.tree.sheetsEl)
  /\ sheets = SheetsRead(<<>>, pkg.tree, 1)
  /\ calls = [c \in Slots |-> Idle]
  /\ dirs = [d \in DirNames |-> NoDir]
  /\ out = [written |-> FALSE, tree |-> EmptyTree]
  /\ last = Returned("readWorkbook", "ok", [kind |-> "r", t |-> now])
  /\ nUpdates = 0
  /\ nCalls = 1

\* The caller who, the workbook read, only updates cells.
NextUpdates == CallUpdateCell

SpecUpdates == InitLoaded /\ [][NextUpdates]_vars

(***************************************************************************)
(* Vocabulary of the properties.                                           *)
(***************************************************************************)
\* A cell reference as the specification defines it: one or more uppercase
\* letters, then one or more digits that read as a number >= 1.
IsCellReference(ref) ==
  \E k \in 1..(Len(ref) - 1) :
    /\ \A i \in 1..k : ref[i] \in Upper
    /\ \A i \in (k+1)..Len(ref) : ref[i] \in Digit
    /\ \E i \in (k+1)..Len(ref) : ref[i] # "0"

\* The step is a call of updateCell.
IsUpdate == nUpdates' = nUpdates + 1 /\ last'.op = "updateCell"

\* The sheet names of the manifest of the package.
ManifestNames ==
  IF pkg.archive /\ pkg.tree.manifest
    THEN {pkg.tree.sheetsEl[i].name : i \in 1..Len(pkg.tree.sheetsEl)}
    ELSE {}

RowShape(xml) ==
  [i \in 1..Len(xml.rows) |-> [r |-> xml.rows[i].r, n |-> Len(xml.rows[i].cells)]]

\* s without its j-th element.
Without(s, j) == SubSeq(s, 1, j - 1) \o SubSeq(s, j + 1, Len(s))

\* Every sheet but the named one is the same before and after the step, and
\* the registry holds the same names in the same order.
OtherSheetsUnchanged(sheetName) ==
  /\ getSheetNames(sheets') = getSheetNames(sheets)
  /\ \A i \in 1..Len(sheets) : sheets[i].name # sheetName => sheets'[i] = sheets[i]
  /\ sheetInfo' = sheetInfo

(***************************************************************************)
(* C1: updateCell(S, R, v) on a loaded sheet S whose document has a cell   *)
(* node R changes that one cell node (its value becomes v, its type "s")   *)
(* and, of the cell-table record of R, the value alone; the rows, every    *)
(* other cell node and every other record of S, and every other sheet, are *)
(* unchanged.                                                              *)
(***************************************************************************)
C1_UpdateExistingFrame ==
  [][ (IsUpdate /\ last'.result = "ok" /\ last'.existed) =>
        LET S == last'.sheet
            R == last'.ref
            before == SheetAt(sheets, S)
            after == SheetAt(sheets', S)
            cells == AllCells(before.xmlContent)
            cells2 == AllCells(after.xmlContent)
        IN /\ OtherSheetsUnchanged(S)
           /\ RowShape(after.xmlContent) = RowShape(before.xmlContent)
           /\ Len(cells2) = Len(cells)
           /\ \E j \in 1..Len(cells) :
                /\ cells[j].r = R /\ cells2[j].r = R
                /\ cells2[j].hasV /\ cells2[j].v = last'.value
                /\ cells2[j].t = "s"
                /\ \A k \in 1..Len(cells) : k # j => cells2[k] = cells[k]
           /\ DOMAIN after.data = DOMAIN before.data
           /\ after.data[R] = [before.data[R] EXCEPT !.value = last'.value]
           /\ \A ref \in DOMAIN before.data :
                ref # R => after.data[ref] = before.data[ref]
    ]_vars

\* An existing cell was updated in a sheet that holds another cell, with
\* another sheet loaded.
C1_Witness ==
  /\ last.op = "updateCell" /\ last.result = "ok" /\ last.existed
  /\ Len(sheets) >= 2
  /\ Len(AllCells(SheetAt(sheets, last.sheet).xmlContent)) >= 2

(***************************************************************************)
(* C2: updateCell(S, R, v) with R a cell reference that has no cell node   *)
(* in the loaded sheet S adds exactly one cell node, with reference R; the *)
(* cell nodes that were there are unchanged and keep their order.          *)
(***************************************************************************)
C2_UpdateAbsentAddsOne ==
  [][ (IsUpdate /\ last'.result = "ok" /\ ~last'.existed) =>
        LET cells == AllCells(SheetAt(sheets, last'.sheet).xmlContent)
            cells2 == AllCells(SheetAt(sheets', last'.sheet).xmlContent)
        IN /\ Len(cells2) = Len(cells) + 1
           /\ \E j \in 1..Len(cells2) :
                /\ cells2[j].r = last'.ref
                /\ Without(cells2, j) = cells
           /\ OtherSheetsUnchanged(last'.sheet)
    ]_vars

\* A cell was created in a sheet that held cells already.
C2_Witness ==
  /\ last.op = "updateCell" /\ last.result = "ok" /\ ~last.existed
  /\ Len(AllCells(SheetAt(sheets, last.sheet).xmlContent)) >= 3

(***************************************************************************)
(* C3: updateCell on a loaded sheet with a text that is no cell reference  *)
(* fails with the invalid-cell-reference error and changes nothing.        *)
(***************************************************************************)
C3_InvalidRefRejected ==
  [][ (/\ IsUpdate
       /\ last'.sheet \in DOMAIN sheetInfo
       /\ HasSheet(sheets, last'.sheet)
       /\ ~IsCellReference(last'.ref)) =>
        /\ last'.result = "InvalidCellReference"
        /\ sheets' = sheets
        /\ sheetInfo' = sheetInfo
        /\ UNCHANGED <<pkg, dirs, out>>
    ]_vars

\* updateCell was refused for its reference, on a loaded sheet.
C3_Witness ==
  /\ last.op = "updateCell" /\ last.result = "InvalidCellReference"
  /\ HasSheet(sheets, last.sheet)
  /\ ~IsCellReference(last.ref)
  /\ last.ref # <<>>

(***************************************************************************)
(* C4: updateCell with a sheet name that the workbook does not hold fails  *)
(* with the sheet-not-found error; no sheet changes and none is added.     *)
(***************************************************************************)
C4_UnknownSheetRejected ==
  [][ (IsUpdate /\ last'.sheet \notin ManifestNames) =>
        /\ last'.result = "SheetNotFound"
        /\ sheets' = sheets
        /\ sheetInfo' = sheetInfo
        /\ UNCHANGED <<pkg, dirs, out>>
    ]_vars

\* updateCell was refused for its sheet name, with a sheet loaded and a
\* valid cell reference.
C4_Witness ==
  /\ last.op = "updateCell" /\ last.result = "SheetNotFound"
  /\ last.sheet \notin ManifestNames
  /\ IsCellReference(last.ref)
  /\ sheets # <<>>

(***************************************************************************)
(* What readWorkbook makes of a package: the parser's registry after the   *)
(* files of xl/worksheets were read in directory order.                    *)
(***************************************************************************)
RECURSIVE LoadFrom(_, _, _)
LoadFrom(ss, tree, k) ==
  IF k > Len(tree.ws) THEN ss
  ELSE LET sheetFile == tree.ws[k].file
           sheetName == getSheetNameFromWorkbook(tree.sheetsEl, sheetFile)
       IN IF sheetFile.ext # "xml" \/ sheetName = ""
            THEN LoadFrom(ss, tree, k + 1)
            ELSE LET res == parseSheet(ss, tree.ws[k].xml, sheetName)
                 IN IF res.result # "ok" THEN res.sheets
                    ELSE LoadFrom(res.sheets, tree, k + 1)

LoadedSheets(tree) ==
  IF tree.manifest /\ tree.wsDir THEN LoadFrom(<<>>, tree, 1) ELSE <<>>

\* The sheets of a registry by name, with the value and type of every cell.
SheetValues(ss) ==
  [i \in 1..Len(ss) |->
     [name |-> ss[i].name,
      cells |-> [ref \in DOMAIN ss[i].data |->
                   [value |-> ss[i].data[ref].value,
                    type |-> ss[i].data[ref].type]]]]

\* A valid package: an archive with a manifest of one or more sheets, each
\* with a name and a numeric id, no name and no id twice, and a sheetData in
\* the worksheet of every sheet.
ValidPackage(p) ==
  LET els == p.tree.sheetsEl IN
  /\ p.archive /\ p.tree.manifest /\ p.tree.wsDir
  /\ els # <<>>
  /\ \A i \in 1..Len(els) :
       /\ els[i].name # ""
       /\ els[i].sheetId # <<>>
       /\ \A k \in 1..Len(els[i].sheetId) : els[i].sheetId[k] \in Digit
  /\ \A i, j \in 1..Len(els) :
       i # j => /\ els[i].name # els[j].name
                /\ parseInt(els[i].sheetId) # parseInt(els[j].sheetId)
  /\ \A k \in 1..Len(p.tree.ws) :
       (/\ p.tree.ws[k].file.ext = "xml"
        /\ getSheetNameFromWorkbook(els, p.tree.ws[k].file) # "")
         => p.tree.ws[k].xml.hasSheetData

\* A write call has returned without error.
Written == last.op = "writeWorkbook" /\ last.result = "ok"

(***************************************************************************)
(* C5: for a valid package, when writeWorkbook returns and the session     *)
(* holds the sheets as readWorkbook loaded them (no updateCell changed     *)
(* them), the output package reads as the input package does: the same     *)
(* number of sheets, the same names, the same value and type of each cell. *)
(***************************************************************************)
C5_RoundTrip ==
  (/\ Written
   /\ ValidPackage(pkg)
   /\ sheets # <<>>
   /\ sheets = LoadedSheets(pkg.tree)) =>
     /\ out.written
     /\ getSheetCount(LoadedSheets(out.tree)) = getSheetCount(LoadedSheets(pkg.tree))
     /\ getSheetNames(LoadedSheets(out.tree)) = getSheetNames(LoadedSheets(pkg.tree))
     /\ SheetValues(LoadedSheets(out.tree)) = SheetValues(LoadedSheets(pkg.tree))

\* A package of two sheets was read and written back without an update.
C5_Witness ==
  /\ Written
  /\ ValidPackage(pkg)
  /\ sheets = LoadedSheets(pkg.tree)
  /\ Len(sheets) = 2
  /\ nUpdates = 0

(***************************************************************************)
(* C6: when writeWorkbook returns, the output holds every part of the      *)
(* input package, and every part that is no loaded worksheet part (the     *)
(* manifest, shared strings, relationships, the macro part) is identical   *)
(* to the input.                                                           *)
(***************************************************************************)
\* The worksheet parts whose sheets the session holds.
LoadedParts ==
  {f \in WsFiles(pkg.tree) :
     /\ f.ext = "xml"
     /\ getSheetNameFromWorkbook(pkg.tree.sheetsEl, f) # ""
     /\ HasSheet(sheets, getSheetNameFromWorkbook(pkg.tree.sheetsEl, f))}

C6_OtherPartsPreserved ==
  Written =>
    /\ out.written
    /\ out.tree.manifest = pkg.tree.manifest
    /\ out.tree.sheetsEl = pkg.tree.sheetsEl
    /\ out.tree.rels = pkg.tree.rels
    /\ DOMAIN out.tree.other = DOMAIN pkg.tree.other
    /\ \A n \in DOMAIN pkg.tree.other : out.tree.other[n] = pkg.tree.other[n]
    /\ WsFiles(pkg.tree) \subseteq WsFiles(out.tree)
    /\ \A f \in WsFiles(pkg.tree) \ LoadedParts :
         WsXml(out.tree, f) = WsXml(pkg.tree, f)

(***************************************************************************)
(* C7: when writeWorkbook returns, for every sheet the session holds, the  *)
(* worksheet part of that sheet in the output is the sheet's current XML.  *)
(***************************************************************************)
\* The worksheet part readWorkbook loaded a sheet from.
PartOf(sheetName) ==
  LET from == {k \in 1..Len(pkg.tree.ws) :
                 /\ pkg.tree.ws[k].file.ext = "xml"
                 /\ getSheetNameFromWorkbook(pkg.tree.sheetsEl,
                                             pkg.tree.ws[k].file) = sheetName}
  IN pkg.tree.ws[CHOOSE k \in from : \A j \in from : j <= k].file

C7_WrittenSheetIsCurrent ==
  Written =>
    \A i \in 1..Len(sheets) :
      /\ PartOf(sheets[i].name) \in WsFiles(out.tree)
      /\ WsXml(out.tree, PartOf(sheets[i].name)) = sheets[i].xmlContent

(***************************************************************************)
(* C8: the cell table of every sheet is what parsing the sheet's current   *)
(* XML derives: the same references, each with the same value, type and    *)
(* formula.                                                                *)
(***************************************************************************)
C8_TableMatchesXml ==
  \A i \in 1..Len(sheets) : sheets[i].data = ParsedData(sheets[i].xmlContent)

(***************************************************************************)
(* C9: after a successful updateCell(S, ref, value) the cell-table record  *)
(* of ref in S has the value and the type "s".                             *)
(***************************************************************************)
C9_RecordIsString ==
  (last.op = "updateCell" /\ last.result = "ok") =>
    /\ last.ref \in DOMAIN SheetAt(sheets, last.sheet).data
    /\ SheetAt(sheets, last.sheet).data[last.ref].value = last.value
    /\ SheetAt(sheets, last.sheet).data[last.ref].type = "s"

(***************************************************************************)
(* C10: when readWorkbook or writeWorkbook has returned, by success or by  *)
(* failure, the scratch directory of the call does not exist.              *)
(***************************************************************************)
C10_ScratchReleased ==
  last.op \in {"readWorkbook", "writeWorkbook"} => ~dirs[last.dir].exists

(***************************************************************************)
(* C11: updateCell looks at the sheet before the cell reference: with a    *)
(* text that is no cell reference, a sheet name the workbook does not hold *)
(* gives the sheet-not-found error, and a loaded sheet gives the           *)
(* invalid-cell-reference error.                                           *)
(***************************************************************************)
C11_SheetBeforeReference ==
  [][ (IsUpdate /\ ~IsCellReference(last'.ref)) =>
        /\ last'.sheet \notin ManifestNames => last'.result = "SheetNotFound"
        /\ last'.sheet \notin DOMAIN sheetInfo => last'.result = "SheetNotFound"
        /\ (last'.sheet \in DOMAIN sheetInfo /\ HasSheet(sheets, last'.sheet))
             => last'.result = "InvalidCellReference"
    ]_vars

\* updateCell was refused for its sheet name although its reference was
\* invalid as well, with a sheet loaded.
C11_Witness ==
  /\ last.op = "updateCell" /\ last.result = "SheetNotFound"
  /\ last.sheet \notin ManifestNames
  /\ ~IsCellReference(last.ref)
  /\ sheets # <<>>

(***************************************************************************)
(* C12: when readWorkbook has returned without error, getSheetNames gives  *)
(* the sheet names of the manifest in manifest order, and getSheetCount    *)
(* the number of sheet elements of the manifest.                           *)
(***************************************************************************)
\* A read call has returned without error.
Loaded == last.op = "readWorkbook" /\ last.result = "ok"

C12_NamesInManifestOrder ==
  Loaded =>
    /\ getSheetNames(sheets) =
         [i \in 1..Len(pkg.tree.sheetsEl) |-> pkg.tree.sheetsEl[i].name]
    /\ getSheetCount(sheets) = Len(pkg.tree.sheetsEl)

(***************************************************************************)
(* C13: when the package has a relationship part, a sheet is read from the *)
(* worksheet part its relationship names; a sheet is read from             *)
(* sheet<sheetId>.xml only when the package has no relationship part.      *)
(***************************************************************************)
\* The worksheet part the relationship of a sheet element names.
RelTarget(tree, el) ==
  tree.rels[CHOOSE k \in 1..Len(tree.rels) : tree.rels[k].id = el.rid].target

\* The sheet elements whose relationship the relationship part holds and
\* whose target is a part of the package.
Related(tree) ==
  {i \in 1..Len(tree.sheetsEl) :
     /\ \E k \in 1..Len(tree.rels) : tree.rels[k].id = tree.sheetsEl[i].rid
     /\ RelTarget(tree, tree.sheetsEl[i]) \in WsFiles(tree)}

\* The sheet elements whose name no other sheet element has.
UniquelyNamed(tree) ==
  {i \in 1..Len(tree.sheetsEl) :
     \A j \in 1..Len(tree.sheetsEl) :
        tree.sheetsEl[j].name = tree.sheetsEl[i].name => j = i}

C13_ResolvedThroughRelationships ==
  Loaded =>
    IF pkg.tree.rels # <<>>
      THEN \A i \in Related(pkg.tree) :
             /\ HasSheet(sheets, pkg.tree.sheetsEl[i].name)
             /\ SheetAt(sheets, pkg.tree.sheetsEl[i].name).xmlContent =
                  WsXml(pkg.tree, RelTarget(pkg.tree, pkg.tree.sheetsEl[i]))
      ELSE \A i \in UniquelyNamed(pkg.tree) :
             HasSheet(sheets, pkg.tree.sheetsEl[i].name) =>
               SheetAt(sheets, pkg.tree.sheetsEl[i].name).xmlContent =
                 WsXml(pkg.tree, SheetFile(pkg.tree.sheetsEl[i].sheetId))

(***************************************************************************)
(* The specification of callers that do not await: readWorkbook and        *)
(* writeWorkbook are async, so a call can start, and updateCell can run,   *)
(* while other calls stand at an await.  A call takes the lowest free slot.*)
(***************************************************************************)
FreeSlot(c) ==
  /\ calls[c].kind = "none"
  /\ \A d \in 1..(c - 1) : calls[d].kind # "none"

ConcRead == \E c \in Slots : FreeSlot(c) /\ StartRead(c)

ConcWrite == \E c \in Slots : FreeSlot(c) /\ StartWrite(c)

\* updateCell between the steps of the calls in flight.
ConcUpdateCell == nUpdates < MaxConcUpdates /\ UpdateCell

NextConc == ConcRead \/ ConcWrite \/ ConcUpdateCell \/ Step

SpecConc == Init /\ [][NextConc]_vars

(***************************************************************************)
(* C14: an updateCell that runs before any readWorkbook was called, or     *)
(* while the first readWorkbook is in flight, does not succeed and changes *)
(* no sheet.                                                               *)
(***************************************************************************)
\* No call was started yet, or the only call started is a read in flight.
NotLoadedYet ==
  \/ nCalls = 0
  \/ nCalls = 1 /\ \E c \in Slots : calls[c].kind = "read"

C14_NoUpdateBeforeLoaded ==
  [][ (IsUpdate /\ NotLoadedYet) =>
        /\ last'.result # "ok"
        /\ sheets' = sheets
    ]_vars

(***************************************************************************)
(* C15: two calls in flight never use the same scratch directory.          *)
(***************************************************************************)
C15_ScratchExclusive ==
  \A c, d \in Slots :
    (c # d /\ calls[c].kind # "none" /\ calls[d].kind # "none") =>
      calls[c].dir # calls[d].dir

(***************************************************************************)
(* C16: reading a package whose manifest has no sheet element with both a  *)
(* name and an id fails with the manifest parse error.                     *)
(***************************************************************************)
\* No sheet element of the manifest has both a name and a sheet id.
NoResolvableSheet(tree) ==
  \A i \in 1..Len(tree.sheetsEl) :
    tree.sheetsEl[i].name = "" \/ tree.sheetsEl[i].sheetId = <<>>

C16_EmptyManifestRejected ==
  (/\ last.op = "readWorkbook"
   /\ pkg.archive /\ pkg.tree.manifest
   /\ NoResolvableSheet(pkg.tree)) =>
     /\ last.result = "ManifestParseError"
     /\ sheets = <<>>

(***************************************************************************)
(* C17: parsing a worksheet without sheetData fails and registers no       *)
(* sheet: the parser's sheets, their names and their number are what they  *)
(* were before the parse.                                                  *)
(***************************************************************************)
\* The step is a read call failing in parseSheet for a missing sheetData.
IsFailedParse ==
  \E c \in Slots :
    /\ calls[c].kind = "read" /\ calls[c].pc = "file"
    /\ calls'[c].kind = "none"
    /\ last'.result = "SheetDataMissing"

C17_FailedParseRegistersNothing ==
  [][ IsFailedParse =>
        /\ sheets' = sheets
        /\ getSheetNames(sheets') = getSheetNames(sheets)
        /\ getSheetCount(sheets') = getSheetCount(sheets)
    ]_vars

\* A read call failed for a worksheet without sheetData after it had
\* registered another sheet.
C17_Witness ==
  /\ last.op = "readWorkbook" /\ last.result = "SheetDataMissing"
  /\ getSheetCount(sheets) = 1
  /\ S2 \in DOMAIN sheetInfo /\ ~HasSheet(sheets, S2)

(***************************************************************************)
(* C18: parsing a worksheet gives the cell table one record for every cell *)
(* node that has a value node, and none for a cell node without value      *)
(* node.                                                                   *)
(***************************************************************************)
\* The references of the cell nodes of a document that have a value node.
ValuedRefs(xml) ==
  {AllCells(xml)[j].r : j \in {k \in 1..Len(AllCells(xml)) : AllCells(xml)[k].hasV}}
    \ {<<>>}

C18_ValuelessCellsSkipped ==
  Loaded =>
    \A i \in 1..Len(sheets) :
      DOMAIN sheets[i].data = ValuedRefs(sheets[i].xmlContent)

(***************************************************************************)
(* C19: parseCellRef accepts a text if and only if it is one or more       *)
(* uppercase letters followed by one or more digits that read as a number  *)
(* >= 1: updateCell on a loaded sheet succeeds for such a text and fails   *)
(* with the invalid-cell-reference error for every other.                  *)
(***************************************************************************)
C19_AcceptsExactlyReferences ==
  (/\ last.op = "updateCell"
   /\ last.sheet \in DOMAIN sheetInfo
   /\ HasSheet(sheets, last.sheet)) =>
     /\ parseCellRef(last.ref).ok <=> IsCellReference(last.ref)
     /\ last.result = "ok" <=> IsCellReference(last.ref)
     /\ last.result # "ok" => last.result = "InvalidCellReference"

\* updateCell on a loaded sheet refused a reference followed by a letter.
C19_Witness ==
  /\ last.op = "updateCell" /\ last.result = "InvalidCellReference"
  /\ HasSheet(sheets, last.sheet)
  /\ last.ref = <<"A","1","B">>

(***************************************************************************)
(* C20: references are held in canonical form, the row without leading     *)
(* zeros: the r attribute of every cell node, the r attribute of every row *)
(* node and every key of the cell table, also after updateCell with a      *)
(* reference such as A01.                                                  *)
(***************************************************************************)
\* <column><row> with the row written without leading zeros.
Canonical(ref) ==
  LET k == CHOOSE x \in RefSplits(ref) \cup {0} : x > 0 \/ RefSplits(ref) = {}
  IN IF k = 0 THEN ref
     ELSE SubSeq(ref, 1, k) \o NumberText(parseInt(SubSeq(ref, k + 1, Len(ref))))

C20_ReferencesCanonical ==
  \A i \in 1..Len(sheets) :
    /\ \A j \in 1..Len(sheets[i].xmlContent.rows) :
         LET r == sheets[i].xmlContent.rows[j].r
         IN r # <<>> => r = NumberText(parseInt(r))
    /\ \A j \in 1..Len(AllCells(sheets[i].xmlContent)) :
         AllCells(sheets[i].xmlContent)[j].r =
           Canonical(AllCells(sheets[i].xmlContent)[j].r)
    /\ \A ref \in DOMAIN sheets[i].data : ref = Canonical(ref)

(***************************************************************************)
(* C21: after a successful updateCell(S, R, v) the cell node R has one     *)
(* child, the value node with text v, the type "s" and the style "1"; it   *)
(* has no formula node.                                                    *)
(***************************************************************************)
C21_CellOverwritten ==
  (last.op = "updateCell" /\ last.result = "ok") =>
    LET cells == AllCells(SheetAt(sheets, last.sheet).xmlContent)
        hit == CellsReferenced(cells, last.ref)
    IN /\ hit # {}
       /\ cells[Min(hit)] =
            [r |-> last.ref, t |-> "s", s |-> "1", hasV |-> TRUE,
             v |-> last.value, hasF |-> FALSE, f |-> ""]

\* A cell that had a formula, no type and the style 3 was updated.
C21_Witness ==
  /\ last.op = "updateCell" /\ last.result = "ok" /\ last.existed
  /\ last.sheet = S2 /\ last.ref = <<"A","2">>
  /\ nUpdates = 1

(***************************************************************************)
(* C22: a cell that updateCell creates becomes the last cell of its row,   *)
(* and a row that updateCell creates becomes the last row of sheetData;    *)
(* the rows and cells that were there keep their places.                   *)
(***************************************************************************)
C22_AppendOnly ==
  [][ (IsUpdate /\ last'.result = "ok" /\ ~last'.existed) =>
        LET rows == SheetAt(sheets, last'.sheet).xmlContent.rows
            rows2 == SheetAt(sheets', last'.sheet).xmlContent.rows
            rowNum == parseInt(parseCellRef(last'.ref).row)
        IN IF RowsNumbered(rows, rowNum) = {}
             THEN /\ Len(rows2) = Len(rows) + 1
                  /\ SubSeq(rows2, 1, Len(rows)) = rows
                  /\ Len(rows2[Len(rows2)].cells) = 1
                  /\ rows2[Len(rows2)].cells[1].r = last'.ref
             ELSE LET ri == Min(RowsNumbered(rows, rowNum))
                  IN /\ Len(rows2) = Len(rows)
                     /\ \A k \in 1..Len(rows) : k # ri => rows2[k] = rows[k]
                     /\ Len(rows2[ri].cells) = Len(rows[ri].cells) + 1
                     /\ SubSeq(rows2[ri].cells, 1, Len(rows[ri].cells)) =
                          rows[ri].cells
                     /\ rows2[ri].cells[Len(rows2[ri].cells)].r = last'.ref
    ]_vars

\* Row 1 was created in a sheet holding row 2, and stands after it.
C22_Witness ==
  /\ last.op = "updateCell" /\ last.result = "ok" /\ ~last.existed
  /\ LET rows == SheetAt(sheets, last.sheet).xmlContent.rows
     IN /\ Len(rows) = 2
        /\ rows[1].r = <<"2">>
        /\ rows[2].r = <<"1">>

(***************************************************************************)
(* C23: when writeWorkbook has returned, a sheet whose worksheet file      *)
(* sheet<N>.xml is no part of the input package has that part in the       *)
(* output, holding the sheet's XML.                                        *)
(***************************************************************************)
C23_NewPartAppended ==
  Written =>
    \A i \in 1..Len(sheets) :
      (/\ sheets[i].name \in DOMAIN sheetInfo
       /\ SheetPath(sheetInfo, sheets[i].name) \notin WsFiles(pkg.tree)) =>
         /\ SheetPath(sheetInfo, sheets[i].name) \in WsFiles(out.tree)
         /\ WsXml(out.tree, SheetPath(sheetInfo, sheets[i].name)) =
              sheets[i].xmlContent

(***************************************************************************)
(* C27: writeWorkbook writes the XML of a loaded sheet into the worksheet  *)
(* part readWorkbook loaded the sheet from.                                *)
(***************************************************************************)
\* The step is writeWorkbook writing the file of its next sheet.
IsSheetWrite(c) ==
  /\ calls[c].kind = "write" /\ calls[c].pc = "sheet"
  /\ calls'[c].kind = "write"
  /\ HasSheet(sheets, calls[c].names[calls[c].i])

C27_WrittenWhereLoaded ==
  [][ \A c \in Slots :
        IsSheetWrite(c) =>
          LET sheetName == calls[c].names[calls[c].i]
              file == SheetPath(sheetInfo, sheetName)
          IN /\ file = PartOf(sheetName)
             /\ WsXml(dirs'[calls[c].dir].tree, file) =
                  SheetAt(sheets, sheetName).xmlContent
    ]_vars

(***************************************************************************)
(* C24: no updateCell, succeeding or failing, and no step of writeWorkbook *)
(* adds, removes or changes an entry of the sheet index.                   *)
(***************************************************************************)
\* The step belongs to a call of writeWorkbook.
IsWriteStep ==
  \E c \in Slots : calls[c].kind = "write" \/ calls'[c].kind = "write"

C24_SheetIndexImmutable ==
  [][ (IsUpdate \/ IsWriteStep) => sheetInfo' = sheetInfo ]_vars

\* A loaded workbook was written after a refused and an accepted updateCell.
C24_Witness ==
  /\ Written
  /\ DOMAIN sheetInfo # {}
  /\ nUpdates = 2
  /\ \E i \in 1..Len(sheets) : sheets[i].xmlContent # WsXml(pkg.tree, PartOf(sheets[i].name))

(***************************************************************************)
(* C25: when writeWorkbook has come to its size check, it returns without  *)
(* error with the output in place, and it has warned exactly when          *)
(* 10 * (output size) < 9 * (input size).                                  *)
(***************************************************************************)
C25_SizeCheckOnlyWarns ==
  (last.op = "writeWorkbook" /\ last.inSize > 0) =>
    /\ last.result = "ok"
    /\ out.written
    /\ last.warned <=> 10 * last.outSize < 9 * last.inSize

\* A write of a loaded workbook returned with a warning, the output being
\* smaller than nine tenths of the input by less than one byte.
C25_Witness ==
  /\ Written /\ last.warned
  /\ last.inSize = 11 /\ last.outSize = 9
  /\ sheets # <<>>

(***************************************************************************)
(* C26: in every sheet of the session no two cell nodes address the same   *)
(* (column, row) position, references that differ only in leading zeros of *)
(* the row part being the same position, and no two row nodes carry the    *)
(* same row number.                                                        *)
(***************************************************************************)
NoDuplicateRows(xml) ==
  \A i, j \in 1..Len(xml.rows) :
    (i # j /\ xml.rows[i].r # <<>> /\ xml.rows[j].r # <<>>) =>
      parseInt(xml.rows[i].r) # parseInt(xml.rows[j].r)

NoDuplicateCells(xml) ==
  \A i, j \in 1..Len(AllCells(xml)) :
    i # j => Canonical(AllCells(xml)[i].r) # Canonical(AllCells(xml)[j].r)

C26_NoDuplicatePositions ==
  \A i \in 1..Len(sheets) :
    NoDuplicateRows(sheets[i].xmlContent) /\ NoDuplicateCells(sheets[i].xmlContent)

\* The same, for the sessions in which no update has named a reference
\* with a leading zero in its row part.
C26_HoldsForCanonicalReferences ==
  C20_ReferencesCanonical => C26_NoDuplicatePositions

\* Row numbers alone are never duplicated.
C26_RowsNeverDuplicated ==
  \A i \in 1..Len(sheets) : NoDuplicateRows(sheets[i].xmlContent)

(***************************************************************************)
(* C28: no step of writeWorkbook, of a call that succeeds or of one that   *)
(* fails, changes the sheet index or any sheet's XML content or cell       *)
(* table; and a writeWorkbook that directly follows a writeWorkbook leaves *)
(* the output package with the parts it had.                               *)
(***************************************************************************)
IsWriteAgainStep ==
  /\ IsWriteStep
  /\ nCalls = MaxCalls + 1
  /\ out.written

C28_WriteLeavesSessionUnchanged ==
  [][ /\ IsWriteStep => (sheetInfo' = sheetInfo /\ sheets' = sheets)
      /\ IsWriteAgainStep => out'.tree = out.tree ]_vars

\* A second writeWorkbook in a row returned, for a loaded workbook with two
\* cells updated before the first.
C28_Witness ==
  /\ Written
  /\ nCalls = MaxCalls + 1
  /\ nUpdates = 2
  /\ \E i \in 1..Len(sheets) :
       /\ sheets[i].xmlContent # WsXml(pkg.tree, PartOf(sheets[i].name))
       /\ WsXml(out.tree, PartOf(sheets[i].name)) = sheets[i].xmlContent

(***************************************************************************)
(* C29: when readWorkbook has failed, the session holds nothing of the     *)
(* workbook: getSheetCount is 0, and an updateCell of any sheet and        *)
(* reference fails with sheet-not-found.                                   *)
(***************************************************************************)
ReadFailed == last.op = "readWorkbook" /\ last.result # "ok"

C29_FailedReadLeavesNothing ==
  (ReadFailed /\ nCalls = 1) =>
    /\ getSheetCount(sheets) = 0
    /\ \A sheetName \in SheetNameInputs, cellRef \in RefInputs, value \in Values :
         workbookUpdateCell(sheetInfo, sheets, sheetName, cellRef, value).result
           = "SheetNotFound"

\* The same, for the package that cannot be opened as an archive.
C29_HoldsForInvalidArchive ==
  (ReadFailed /\ nCalls = 1 /\ last.result = "PackageOpenError") =>
    /\ getSheetCount(sheets) = 0
    /\ DOMAIN sheetInfo = {}

(***************************************************************************)
\* The states that a first readWorkbook returns in are those of InitLoaded.
C30_InitLoadedIsAfterRead ==
  (last.op = "readWorkbook" /\ nCalls = 1 /\ nUpdates = 0) =>
    /\ last.result = "ok" <=> ReadsWell(pkg)
    /\ last.result = "ok" =>
         /\ sheetInfo = StoreSheetInfo(NoParts, pkg.tree.sheetsEl)
         /\ sheets = SheetsRead(<<>>, pkg.tree, 1)
         /\ calls = [c \in Slots |-> Idle]
         /\ dirs = [d \in DirNames |-> NoDir]
         /\ out = [written |-> FALSE, tree |-> EmptyTree]
         /\ last = Returned("readWorkbook", "ok", [kind |-> "r", t |-> now])

(***************************************************************************)
(* C30: in every sheet of the session, as readWorkbook or an updateCell    *)
(* has left it, updates of two distinct existing cells give the same XML   *)
(* content and the same cell table in either order, and an update made     *)
(* twice gives the same as the update made once.                           *)
(***************************************************************************)
TwoValues == {"New Value", "Other Value"}

ExistingRefs(sheet) ==
  {ref \in {AllCells(sheet.xmlContent)[j].r : j \in 1..Len(AllCells(sheet.xmlContent))} :
     parseCellRef(ref).ok}

Then(ss, sheetName, cellRef, value) ==
  nativeUpdateCell(ss, sheetName, cellRef, value).sheets

C30_UpdatesCommute ==
  (last.op = "readWorkbook" \/ (last.op = "updateCell" /\ last.result = "ok")) =>
  \A i \in 1..Len(sheets) :
    LET S == sheets[i].name
        refs == ExistingRefs(sheets[i]) \cup {r \in RefInputs : parseCellRef(r).ok}
        once == [R \in refs, v \in TwoValues |-> Then(sheets, S, R, v)]
    IN
      /\ \A R1, R2 \in ExistingRefs(sheets[i]) : \A v1, v2 \in TwoValues :
           R1 # R2 =>
             Then(once[R1, v1], S, R2, v2) = Then(once[R2, v2], S, R1, v1)
      /\ \A R \in refs : \A v \in TwoValues :
           Then(once[R, v], S, R, v) = once[R, v]

\* Two cells of one row that were there when the sheet was parsed have both
\* been updated, one after the other.
C30_Witness ==
  /\ nUpdates = 2
  /\ last.op = "updateCell" /\ last.result = "ok" /\ last.existed
  /\ \E i \in 1..Len(sheets) : \E R1, R2 \in ExistingRefs(sheets[i]) :
       /\ R1 # R2
       /\ sheets[i].name = last.sheet
       /\ sheets[i].data[R1].value = "New Value"
       /\ sheets[i].data[R2].value = "New Value"
       /\ Len(AllCells(sheets[i].xmlContent))
            = Len(AllCells(WsXml(pkg.tree, PartOf(sheets[i].name))))

=============================================================================
